---- MODULE Spec2Model ----
(***************************************************************************)
(* A model of morexml: the XML node factory (meta.py, xml.py), the XML.NS  *)
(* namespace context manager (xmlns.py) and the open-parent scoping the    *)
(* XML class inherits from moretools.SimpleTree.                           *)
(*                                                                         *)
(* Python strings are sequences of one-character strings, dicts are        *)
(* functions over a finite key set, None is 0 for object references and    *)
(* the empty sequence for optional arguments (Some(x) is <<x>>).           *)
(* XML.List (xmllist.py), XML.Path (xmlpath.py) and the cache of tag-bound *)
(* classes (meta.py) are modelled by the queries further down.             *)
(***************************************************************************)
EXTENDS Integers, Sequences, FiniteSets, TLC

VARIABLES nodes, nsobjs, context_stack, tree_stack, frames, exc,
          classes, xmllist, paths, ret

\* what the queries make: the tag-bound classes, the XML.List and the paths
\* the program holds, and the value the last call returned
made == <<classes, xmllist, paths, ret>>

vars == <<nodes, nsobjs, context_stack, tree_stack, frames, exc, made>>

(***************************************************************************)
(* Bounds of the model.                                                    *)
(***************************************************************************)
TreeMaxNodes == 4
TreeMaxDepth == 3
CtxMaxNS == 2
CtxMaxDepth == 3
ResMaxObjects == 3
MtMaxNodes == 1
MtMaxNS == 2
MtMaxDepth == 1
CallMaxNS == 2
CallMaxDepth == 2
EqMaxNodes == 4
SubMaxNodes == 4
SubMaxDepth == 1
ItemMaxPaths == 3
OutMaxPaths == 3
AddMaxPaths == 4
ListMaxNodes == 3
BindMaxClasses == 3
BindMaxNodes == 2
SegMaxPaths == 4

Threads == {1, 2}

(***************************************************************************)
(* Python values.                                                          *)
(***************************************************************************)
None == <<>>
Some(x) == <<x>>
EmptyDict == [k \in {} |-> <<>>]

NoExc == "None"
NSLookupError == "NSLookupError"
AssertionError == "AssertionError"
BodyError == "BodyError"

\* dict(a); .update(b): b's entries win
Update(a, b) == [k \in (DOMAIN a) \cup (DOMAIN b) |-> IF k \in DOMAIN b THEN b[k] ELSE a[k]]

\* for key, value in b: a.setdefault(key, value): a's entries win
SetDefault(a, b) == [k \in (DOMAIN a) \cup (DOMAIN b) |-> IF k \in DOMAIN a THEN a[k] ELSE b[k]]

Values(d) == {d[k] : k \in DOMAIN d}

OrEmpty(opt) == IF opt = None THEN EmptyDict ELSE opt[1]

\* str.startswith(c) for a one-character c
StartsWith(s, c) == Len(s) > 0 /\ s[1] = c

\* c in s
Contains(s, c) == \E i \in 1..Len(s) : s[i] = c

\* s.split(c, 1) for a string that contains c
Split1(s, c) ==
    LET i == CHOOSE j \in 1..Len(s) : s[j] = c /\ \A k \in 1..(j - 1) : s[k] # c
    IN  <<SubSeq(s, 1, i - 1), SubSeq(s, i + 1, Len(s))>>

\* "{{{}}}{}".format(uri, name)
ExpandedName(uri, name) == <<"{">> \o uri \o <<"}">> \o name

\* name.replace('_', '-')
pyname_to_xmlname(name) == [i \in 1..Len(name) |-> IF name[i] = "_" THEN "-" ELSE name[i]]

\* {pyname_to_xmlname(key): value for key, value in items}
ConvertKeys(items) ==
    [k \in {pyname_to_xmlname(j) : j \in DOMAIN items} |->
        items[CHOOSE j \in DOMAIN items : pyname_to_xmlname(j) = k]]

Top(s) == s[Len(s)]
Pop(s) == SubSeq(s, 1, Len(s) - 1)

(***************************************************************************)
(* The element backend (lxml), as far as the factory uses it.              *)
(***************************************************************************)

\* The prefix the backend invents for a namespace no declaration covers.
FreshPrefix(nsdef) ==
    IF <<"n", "s", "0">> \notin DOMAIN nsdef THEN <<"n", "s", "0">>
    ELSE IF <<"n", "s", "1">> \notin DOMAIN nsdef THEN <<"n", "s", "1">>
    ELSE <<"n", "s", "2">>

\* Giving an element or attribute the name {uri}name declares uri on the
\* element unless a declaration in scope already covers it.
DeclareUri(nsdef, uri) ==
    IF uri \in Values(nsdef) THEN nsdef
    ELSE Update(nsdef, [k \in {FreshPrefix(nsdef)} |-> uri])

NameUri(name) == Split1(SubSeq(name, 2, Len(name)), "}")[1]

DeclareName(nsdef, name) ==
    IF StartsWith(name, "{") /\ Contains(name, "}") THEN DeclareUri(nsdef, NameUri(name))
    ELSE nsdef

\* Element(name, nsmap=xmlns)
Element(name, xmlns) ==
    [tag |-> name, attrib |-> EmptyDict, nsdef |-> DeclareName(OrEmpty(xmlns), name),
     children |-> <<>>, parent |-> 0]

\* element.nsmap: the declarations of the element over those of its ancestors
RECURSIVE nsmap(_, _)
nsmap(ns, n) ==
    IF ns[n].element.parent = 0 THEN ns[n].element.nsdef
    ELSE Update(nsmap(ns, ns[n].element.parent), ns[n].element.nsdef)

\* parent.append(child) drops the declarations of child whose namespace is
\* already in scope at parent
StripRedundant(nsdef, parentmap) ==
    [k \in {j \in DOMAIN nsdef : nsdef[j] \notin Values(parentmap)} |-> nsdef[k]]

(***************************************************************************)
(* XML.NS (xmlns.py)                                                       *)
(***************************************************************************)

NS_init_unmerged(mapping, items) == Update(OrEmpty(mapping), ConvertKeys(items))

\* NS.__init__(mapping, **items): the mapping the new NS object holds
NS_init(mapping, items) ==
    LET own == Update(OrEmpty(mapping), ConvertKeys(items))
    IN  IF context_stack # <<>> THEN SetDefault(own, nsobjs[Top(context_stack)].map) ELSE own

\* the NS object: its mapping, and the arguments and context it was made from
NewNSObject(mapping, items) ==
    [map |-> NS_init(mapping, items),
     own |-> Update(OrEmpty(mapping), ConvertKeys(items)),
     ctx |-> IF context_stack # <<>> THEN Some(nsobjs[Top(context_stack)].map) ELSE None]

NewNS(t, mapping, items, maxns) ==
    /\ exc[t] = NoExc
    /\ Len(nsobjs) < maxns
    /\ nsobjs' = Append(nsobjs, NewNSObject(mapping, items))
    /\ UNCHANGED <<nodes, context_stack, tree_stack, frames, exc, made>>

\* NS.__enter__, reached through a with statement of thread t
NS_enter(t, h, maxdepth) ==
    /\ exc[t] = NoExc
    /\ h \in 1..Len(nsobjs)
    /\ Len(frames[t]) < maxdepth
    /\ Len(context_stack) < maxdepth * Cardinality(Threads)
    /\ context_stack' = Append(context_stack, h)
    /\ frames' = [frames EXCEPT ![t] = Append(@, [kind |-> "NS", id |-> h, saved |-> context_stack])]
    /\ UNCHANGED <<nodes, nsobjs, tree_stack, exc, made>>

\* assert stack and stack[-1] is self
StackIsSelf(stack, h) == stack # <<>> /\ Top(stack) = h

\* NS.__exit__(*exc_info) of handle h in thread t, with e the exception of the
\* block: the new stack and the exception that leaves __exit__
NS_exit_stack_unchecked(h) == Pop(context_stack)

NS_exit_stack(h) == IF StackIsSelf(context_stack, h) THEN Pop(context_stack) ELSE context_stack

NS_exit_exc_suppressed(h, e) == IF StackIsSelf(context_stack, h) THEN NoExc ELSE AssertionError

NS_exit_exc(h, e) == IF StackIsSelf(context_stack, h) THEN e ELSE AssertionError

\* the with statement of thread t leaves its innermost block, an NS block
NS_exit(t) ==
    /\ frames[t] # <<>>
    /\ Top(frames[t]).kind = "NS"
    /\ LET h == Top(frames[t]).id
       IN  /\ context_stack' = NS_exit_stack(h)
           /\ exc' = [exc EXCEPT ![t] = NS_exit_exc(h, exc[t])]
    /\ frames' = [frames EXCEPT ![t] = Pop(@)]
    /\ UNCHANGED <<nodes, nsobjs, tree_stack, made>>

(***************************************************************************)
(* Tag-bound constructors (meta.py) and XML nodes (xml.py)                 *)
(***************************************************************************)

\* Python attribute values: a str or an int, with its text
PyStr(s) == <<"str", s>>
PyInt(digits) == <<"int", digits>>

\* six.text_type(value)
unicode(value) == <<"str", value[2]>>

\* not tag.startswith('{') and ':' in tag
IsPrefixed(name) == ~StartsWith(name, "{") /\ Contains(name, ":")

\* self._prefix, name = tag.split(':', 1), else name = tag
TagPrefix(tag) == IF IsPrefixed(tag) THEN Some(Split1(tag, ":")[1]) ELSE None

TagName(tag) == IF IsPrefixed(tag) THEN Split1(tag, ":")[2] ELSE tag

\* self._attrs: attrs updated with the converted keyword attributes
InitAttrs(attrs, kwattrs) ==
    Update(OrEmpty(attrs),
           [k \in DOMAIN ConvertKeys(kwattrs) |-> unicode(ConvertKeys(kwattrs)[k])])

InitXmlns_context_wins(xmlns) ==
    IF context_stack # <<>>
    THEN Some(Update(OrEmpty(xmlns), nsobjs[Top(context_stack)].map))
    ELSE xmlns

\* the nsmap handed to Element(): the context stack top updated with xmlns
InitXmlns(xmlns) ==
    IF context_stack # <<>>
    THEN Some(Update(nsobjs[Top(context_stack)].map, OrEmpty(xmlns)))
    ELSE xmlns

\* the XML object the tagged __init__ has built when it calls super().__init__()
NewNode(tag, attrs, xmlns, kwattrs) ==
    [tag |-> tag,
     prefix |-> TagPrefix(tag),
     attrs |-> InitAttrs(attrs, kwattrs),
     element |-> Element(TagName(tag), InitXmlns(xmlns)),
     parent |-> 0,
     sub |-> <<>>,
     kwattrs |-> kwattrs,
     xmlns_arg |-> xmlns,
     nsarg |-> InitXmlns(xmlns),
     ctx |-> IF context_stack # <<>> THEN Some(nsobjs[Top(context_stack)].map) ELSE None]

\* SimpleTree.__init__ assigns self.parent: the innermost open parent or None
CurrentParent(t) == IF tree_stack[t] = <<>> THEN 0 ELSE Top(tree_stack[t])

SetterXmlns_self_only(ns, n, p) == nsmap(ns, n)

SetterXmlns_parent_wins(ns, n, p) ==
    Update(nsmap(ns, n), IF p = 0 THEN EmptyDict ELSE nsmap(ns, p))

\* parent setter: xmlns = dict(parentxml.xmlns()); xmlns.update(self.xmlns())
SetterXmlns(ns, n, p) ==
    Update(IF p = 0 THEN EmptyDict ELSE nsmap(ns, p), nsmap(ns, n))

\* parent setter: the tag prefix has to be exchanged with a namespace URI
TagPending(node) == ~StartsWith(node.element.tag, "{") /\ node.prefix # None

AttrPrefix(key) == Split1(key, ":")[1]

\* parent setter: one of the two lookups raises NSLookupError
SetterRaises(ns, n, p) ==
    LET xmlns == SetterXmlns(ns, n, p)
    IN  \/ TagPending(ns[n]) /\ ns[n].prefix[1] \notin DOMAIN xmlns
        \/ \E key \in DOMAIN ns[n].attrs :
              IsPrefixed(key) /\ AttrPrefix(key) \notin DOMAIN xmlns

ResolvedTag(node, xmlns) ==
    IF TagPending(node) THEN ExpandedName(xmlns[node.prefix[1]], node.element.tag)
    ELSE node.element.tag

ResolvedKey(key, xmlns) ==
    IF IsPrefixed(key) THEN ExpandedName(xmlns[AttrPrefix(key)], Split1(key, ":")[2])
    ELSE key

\* the attributes after self.element.set(key, value) for every item of _attrs
\* (the constructor arguments of the model never resolve two keys to one name)
ResolvedAttrib(attrs, xmlns) ==
    [rk \in {ResolvedKey(k, xmlns) : k \in DOMAIN attrs} |->
        attrs[CHOOSE k \in DOMAIN attrs : ResolvedKey(k, xmlns) = rk]]

RECURSIVE DeclareNames(_, _)
DeclareNames(nsdef, names) ==
    IF names = {} THEN nsdef
    ELSE LET name == CHOOSE x \in names : TRUE
         IN  DeclareNames(DeclareName(nsdef, name), names \ {name})

SubPrepend(sub, n) == <<n>> \o sub

\* parentxml.sub._list.append(self)
SubAppend(sub, n) == Append(sub, n)

ElementAppendNothing(children, n) == children

\* parentxml.element.append(self.element): the child list of the element
ElementAppend(children, n) == Append(children, n)

\* the nodes after a parent setter that does not raise; n is the new node
ParentSetter(ns, n, p) ==
    LET xmlns == SetterXmlns(ns, n, p)
        self == ns[n]
        tag == ResolvedTag(self, xmlns)
        attrib == ResolvedAttrib(self.attrs, xmlns)
        declared == DeclareNames(DeclareName(self.element.nsdef, tag), DOMAIN attrib)
        resolved == [self EXCEPT !.prefix = IF StartsWith(self.element.tag, "{") THEN @ ELSE None,
                                 !.element.tag = tag,
                                 !.element.attrib = attrib,
                                 !.element.nsdef = declared]
    IN  IF p = 0 THEN [ns EXCEPT ![n] = resolved]
        ELSE [ns EXCEPT ![n] = [resolved EXCEPT !.parent = p,
                                                !.element.parent = p,
                                                !.element.nsdef = StripRedundant(declared, nsmap(ns, p))],
                        ![p] = [@ EXCEPT !.sub = SubAppend(@, n),
                                         !.element.children = ElementAppend(@, n)]]

Construct_attach_first(t, tag, attrs, xmlns, kwattrs, maxnodes) ==
    /\ exc[t] = NoExc
    /\ Len(nodes) < maxnodes
    /\ LET ns == Append(nodes, NewNode(tag, attrs, xmlns, kwattrs))
           n == Len(ns)
           p == CurrentParent(t)
           raises == SetterRaises(ns, n, p)
       IN  /\ nodes' = IF ~raises THEN ParentSetter(ns, n, p)
                       ELSE IF p = 0 THEN nodes
                       ELSE [ns EXCEPT ![p] = [@ EXCEPT !.sub = SubAppend(@, n),
                                                        !.element.children = ElementAppend(@, n)]]
           /\ exc' = [exc EXCEPT ![t] = IF raises THEN NSLookupError ELSE NoExc]
    /\ UNCHANGED <<nsobjs, context_stack, tree_stack, frames, made>>

\* XML[tag](attrs, xmlns, **kwattrs) in thread t
Construct(t, tag, attrs, xmlns, kwattrs, maxnodes) ==
    /\ exc[t] = NoExc
    /\ Len(nodes) < maxnodes
    /\ LET ns == Append(nodes, NewNode(tag, attrs, xmlns, kwattrs))
           n == Len(ns)
           p == CurrentParent(t)
           raises == SetterRaises(ns, n, p)
       IN  /\ nodes' = IF raises THEN nodes ELSE ParentSetter(ns, n, p)
           /\ exc' = [exc EXCEPT ![t] = IF raises THEN NSLookupError ELSE NoExc]
    /\ UNCHANGED <<nsobjs, context_stack, tree_stack, frames, made>>

\* node n is the parent of a with block thread t is in
Open(t, n) == \E i \in 1..Len(tree_stack[t]) : tree_stack[t][i] = n

\* NS object h is on the context stack
Active(h) == \E i \in 1..Len(context_stack) : context_stack[i] = h

\* SimpleTree.__enter__ of node n, reached through a with statement of thread t
XML_enter(t, n, maxdepth) ==
    /\ exc[t] = NoExc
    /\ n \in 1..Len(nodes)
    /\ Len(frames[t]) < maxdepth
    /\ tree_stack' = [tree_stack EXCEPT ![t] = Append(@, n)]
    /\ frames' = [frames EXCEPT ![t] = Append(@, [kind |-> "XML", id |-> n, saved |-> tree_stack[t]])]
    /\ UNCHANGED <<nodes, nsobjs, context_stack, exc, made>>

\* SimpleTree.__exit__: the with statement of thread t leaves its innermost
\* block, the block of an XML node; an exception of the block propagates
XML_exit(t) ==
    /\ frames[t] # <<>>
    /\ Top(frames[t]).kind = "XML"
    /\ tree_stack' = [tree_stack EXCEPT ![t] = Pop(@)]
    /\ frames' = [frames EXCEPT ![t] = Pop(@)]
    /\ UNCHANGED <<nodes, nsobjs, context_stack, exc, made>>

\* the code of a with block raises an exception of its own
Raise(t) ==
    /\ exc[t] = NoExc
    /\ frames[t] # <<>>
    /\ exc' = [exc EXCEPT ![t] = BodyError]
    /\ UNCHANGED <<nodes, nsobjs, context_stack, tree_stack, frames, made>>

\* an exception that left the outermost with block reaches the caller
Catch(t) ==
    /\ exc[t] # NoExc
    /\ frames[t] = <<>>
    /\ exc' = [exc EXCEPT ![t] = NoExc]
    /\ UNCHANGED <<nodes, nsobjs, context_stack, tree_stack, frames, made>>

\* ns.__exit__(None, None, None) called on a handle outside a with statement
NS_exit_call(t, h) ==
    /\ exc[t] = NoExc
    /\ h \in 1..Len(nsobjs)
    /\ context_stack' = NS_exit_stack(h)
    /\ exc' = [exc EXCEPT ![t] = NS_exit_exc(h, NoExc)]
    /\ UNCHANGED <<nodes, nsobjs, tree_stack, frames, made>>

\* list.__eq__ of sub._list: the same length and every pair of items identical
\* or equal; XML.sub.__eq__ and XML.__eq__ over it
RECURSIVE XMLEq(_, _, _)
ListEq(ns, la, lb) ==
    /\ Len(la) = Len(lb)
    /\ \A i \in 1..Len(la) : la[i] = lb[i] \/ XMLEq(ns, la[i], lb[i])

SubEq(ns, a, b) == ListEq(ns, ns[a].sub, ns[b].sub)

XMLEq_ignoring_nsmap(ns, a, b) ==
    /\ ns[a].element.tag = ns[b].element.tag
    /\ ns[a].element.attrib = ns[b].element.attrib
    /\ SubEq(ns, a, b)

\* XML.__eq__
XMLEq(ns, a, b) ==
    /\ ns[a].element.tag = ns[b].element.tag
    /\ ns[a].element.attrib = ns[b].element.attrib
    /\ nsmap(ns, a) = nsmap(ns, b)
    /\ SubEq(ns, a, b)

(***************************************************************************)
(* XMLMeta.__getitem__ (meta.py): the tag-bound classes.  Class 0 is XML,  *)
(* class c > 0 is classes[c].                                              *)
(***************************************************************************)
TypeError == "TypeError"

\* cls._tag
ClassTag(cls) == IF cls = 0 THEN None ELSE Some(classes[cls].tag)

HasTag_never(cls) == FALSE

\* cls._tag is not None
HasTag(cls) == ClassTag(cls) # None

\* @cached: the classes an earlier cls[tag] has returned
Cached(cls, tag) == {c \in 1..Len(classes) : classes[c].base = cls /\ classes[c].tag = tag}

\* cls[tag] in thread t
Bind(t, cls, tag, maxclasses) ==
    /\ exc[t] = NoExc
    /\ cls \in 0..Len(classes)
    /\ Cached(cls, tag) # {} \/ HasTag(cls) \/ Len(classes) < maxclasses
    /\ IF Cached(cls, tag) # {}
       THEN /\ classes' = classes
            /\ ret' = <<"class", CHOOSE c \in Cached(cls, tag) : TRUE>>
            /\ exc' = exc
       ELSE IF HasTag(cls)
       THEN /\ classes' = classes
            /\ ret' = ret
            /\ exc' = [exc EXCEPT ![t] = TypeError]
       ELSE /\ classes' = Append(classes, [tag |-> tag, base |-> cls])
            /\ ret' = <<"class", Len(classes) + 1>>
            /\ exc' = exc
    /\ UNCHANGED <<nodes, nsobjs, context_stack, tree_stack, frames, xmllist, paths>>

(***************************************************************************)
(* XML.sub and XML.List (xml.py, xmllist.py)                               *)
(***************************************************************************)
KeyError == "KeyError"

\* XML.tag: prefix:name for an element name {uri}name, with the prefix that
\* xmlns() has for uri
XML_tag(ns, n) ==
    LET tag == ns[n].element.tag
        xmlns == nsmap(ns, n)
    IN  IF StartsWith(tag, "{")
        THEN LET keys == {k \in DOMAIN xmlns : xmlns[k] = NameUri(tag)}
             IN  IF keys = {} THEN tag
                 ELSE (CHOOSE k \in keys : TRUE) \o <<":">>
                         \o Split1(SubSeq(tag, 2, Len(tag)), "}")[2]
        ELSE tag

\* XML.__getitem__: self.element.attrib[xmlattr] raises KeyError
XML_getitem_raises(ns, n, xmlattr) == xmlattr \notin DOMAIN ns[n].element.attrib

\* XML.__getitem__: the value
XML_getitem(ns, n, xmlattr) == ns[n].element.attrib[xmlattr]

\* all(xml[attr] == value for attr, value in xmlattr_filter.items()), with
\* items the (attr, value) pairs in the order the dict yields them
RECURSIVE AllMatch(_, _, _)
AllMatch(ns, c, items) ==
    IF items = <<>> THEN "True"
    ELSE IF XML_getitem_raises(ns, c, Head(items)[1]) THEN KeyError
    ELSE IF XML_getitem(ns, c, Head(items)[1]) = Head(items)[2]
         THEN AllMatch(ns, c, Tail(items))
    ELSE "False"

TagMatches(ns, c, tag_filter) ==
    tag_filter = <<>> \/ \E i \in 1..Len(tag_filter) : tag_filter[i] = XML_tag(ns, c)

\* select(), consumed by List(select()): the sub-trees it yields, or the
\* exception that leaves it
RECURSIVE select(_, _, _, _)
select(ns, list, tag_filter, items) ==
    IF list = <<>> THEN [raised |-> FALSE, items |-> <<>>]
    ELSE LET xml == Head(list)
             match == IF TagMatches(ns, xml, tag_filter) THEN AllMatch(ns, xml, items)
                      ELSE "False"
             rest == select(ns, Tail(list), tag_filter, items)
         IN  IF match = KeyError \/ rest.raised THEN [raised |-> TRUE, items |-> <<>>]
             ELSE IF match = "True" THEN [rest EXCEPT !.items = <<xml>> \o @]
             ELSE rest

\* xml.sub(*tag_filter, **xmlattr_filter) on node n in thread t
sub_call(t, n, tag_filter, items) ==
    /\ exc[t] = NoExc
    /\ n \in 1..Len(nodes)
    /\ LET r == select(nodes, nodes[n].sub, tag_filter, items)
       IN  /\ xmllist' = IF r.raised THEN xmllist ELSE Some(r.items)
           /\ exc' = [exc EXCEPT ![t] = IF r.raised THEN KeyError ELSE NoExc]
    /\ UNCHANGED <<nodes, nsobjs, context_stack, tree_stack, frames, classes, paths, ret>>

\* XML.__setitem__: self.element.attrib[xmlattr] = value
XML_setitem(ns, n, xmlattr, value) ==
    [ns EXCEPT ![n].element.attrib = Update(@, [k \in {xmlattr} |-> value])]

\* List.__getitem__(key) for an attribute name: tuple(xml[key] for xml in self),
\* or the KeyError of the first member without the attribute
RECURSIVE List_getitem(_, _, _)
List_getitem(ns, list, key) ==
    IF list = <<>> THEN [raised |-> FALSE, items |-> <<>>]
    ELSE IF XML_getitem_raises(ns, Head(list), key) THEN [raised |-> TRUE, items |-> <<>>]
    ELSE LET rest == List_getitem(ns, Tail(list), key)
         IN  IF rest.raised THEN rest
             ELSE [rest EXCEPT !.items = <<XML_getitem(ns, Head(list), key)>> \o @]

List_setitem_first_only(ns, list, key, value) ==
    IF list = <<>> THEN ns ELSE XML_setitem(ns, Head(list), key, value)

\* List.__setitem__: for xml in self: xml[key] = value
RECURSIVE List_setitem(_, _, _, _)
List_setitem(ns, list, key, value) ==
    IF list = <<>> THEN ns
    ELSE List_setitem(XML_setitem(ns, Head(list), key, value), Tail(list), key, value)

\* XML.List(nodes[first:last]): a list of nodes the program has made
NewList(t, first, last) ==
    /\ exc[t] = NoExc
    /\ 1 <= first /\ first <= last + 1 /\ last <= Len(nodes)
    /\ xmllist' = Some([i \in 1..(last - first + 1) |-> first + i - 1])
    /\ UNCHANGED <<nodes, nsobjs, context_stack, tree_stack, frames, exc, classes, paths, ret>>

\* xmllist[key]
ListGet(t, key) ==
    /\ exc[t] = NoExc
    /\ xmllist # None
    /\ LET r == List_getitem(nodes, xmllist[1], key)
       IN  /\ ret' = IF r.raised THEN ret ELSE <<"getitem", key, r.items>>
           /\ exc' = [exc EXCEPT ![t] = IF r.raised THEN KeyError ELSE NoExc]
    /\ UNCHANGED <<nodes, nsobjs, context_stack, tree_stack, frames, classes, xmllist, paths>>

\* xmllist[key] = value
ListSet(t, key, value) ==
    /\ exc[t] = NoExc
    /\ xmllist # None
    /\ nodes' = List_setitem(nodes, xmllist[1], key, value)
    /\ UNCHANGED <<nsobjs, context_stack, tree_stack, frames, exc, classes, xmllist, paths, ret>>

(***************************************************************************)
(* XML.Path (xmlpath.py).  A path is the tuple of its segments; a segment  *)
(* is its class, tag, namespaces, index and its _xml node.                 *)
(***************************************************************************)
AttributeError == "AttributeError"

\* Root(xmlns=_ns), Deep(xmlns=_ns): Segment.__init__
Root(xmlns) == [kind |-> "Root", tag |-> <<>>, xmlns |-> xmlns, index |-> None, xml |-> None]
Deep(xmlns) == [kind |-> "Deep", tag |-> <<>>, xmlns |-> xmlns, index |-> None, xml |-> None]

\* tag = self._tag if self._tag not in '.*' else 'X'
ElementTag(tag) == IF tag \in {<<>>, <<".">>, <<"*">>, <<".", "*">>} THEN <<"X">> ELSE tag

\* XML.root[tag](xmlns=xmlns, **xmlattrs): a node of its own, outside the tree
\* under construction
RootNodes(tag, xmlns, xmlattrs) == <<NewNode(ElementTag(tag), None, Some(xmlns), xmlattrs)>>

\* Any(index, xmlns, **xmlattrs), Tagged(tag, index, xmlns, **xmlattrs):
\* Element.__init__ raises the NSLookupError of the node constructor
ElementRaises(tag, xmlns, xmlattrs) == SetterRaises(RootNodes(tag, xmlns, xmlattrs), 1, 0)

ElementSegment(tag, index, xmlns, xmlattrs) ==
    [kind |-> IF tag = <<"*">> THEN "Any" ELSE "Tagged",
     tag |-> tag, xmlns |-> xmlns, index |-> index,
     xml |-> Some(ParentSetter(RootNodes(tag, xmlns, xmlattrs), 1, 0)[1])]

\* Path.xmlns(): the namespaces of the last segment
Path_xmlns(segments) == Top(segments).xmlns

\* Path.__init__: _ns, the stack top updated with the namespaces of parentpath
\* and then with xmlns
Path_ns(parentpath, xmlns) ==
    Update(Update(IF context_stack # <<>> THEN nsobjs[Top(context_stack)].map ELSE EmptyDict,
                  IF parentpath # None THEN Path_xmlns(parentpath[1]) ELSE EmptyDict),
           OrEmpty(xmlns))

\* Path.__init__(tag, index, parentpath, xmlns, **xmlattrs): the exception it
\* raises, or the segments of the new path
Path_init(tag, index, parentpath, xmlns, xmlattrs) ==
    LET _ns == Path_ns(parentpath, xmlns)
        before == IF parentpath # None THEN parentpath[1] ELSE <<>>
    IN  IF tag = None
        THEN IF parentpath # None THEN [raised |-> AssertionError, segments |-> <<>>]
             ELSE [raised |-> NoExc, segments |-> <<Root(_ns)>>]
        ELSE IF tag[1] = <<>>
        THEN IF index # None \/ xmlattrs # EmptyDict
             THEN [raised |-> AssertionError, segments |-> <<>>]
             ELSE [raised |-> NoExc, segments |-> Append(before, Deep(_ns))]
        ELSE IF ElementRaises(tag[1], _ns, xmlattrs)
             THEN [raised |-> NSLookupError, segments |-> <<>>]
             ELSE [raised |-> NoExc,
                   segments |-> Append(before, ElementSegment(tag[1], index, _ns, xmlattrs))]

\* Path.parentpath(): None for a path of one segment
parentpath(segments) ==
    IF Len(segments) = 1 THEN None ELSE Some(SubSeq(segments, 1, Len(segments) - 1))

\* path / tag
Path_div(segments, tag) == Path_init(Some(tag), None, Some(segments), None, EmptyDict)

\* path // tag: self / '' / tag
Path_floordiv(segments, tag) ==
    LET deep == Path_div(segments, <<>>)
    IN  IF deep.raised # NoExc THEN deep ELSE Path_div(deep.segments, tag)

\* path[key]: key is an int, <<"int", i>>, or a mapping, <<"dict", m>>
Path_getitem(segments, key) ==
    LET lastseg == Top(segments)
    IN  IF lastseg.xml = None THEN [raised |-> AttributeError, segments |-> <<>>]
        ELSE IF key[1] = "int"
        THEN Path_init(Some(lastseg.tag), Some(key[2]), parentpath(segments),
                       Some(lastseg.xmlns), lastseg.xml[1].element.attrib)
        ELSE Path_init(Some(lastseg.tag), lastseg.index, parentpath(segments),
                       Some(lastseg.xmlns), key[2])

Path_add_unchecked(segments, other) ==
    IF other[1] # "Path" THEN [raised |-> TypeError, segments |-> <<>>]
    ELSE [raised |-> NoExc, segments |-> segments \o other[2]]

\* path + other: other is a path, <<"Path", segments>>, or something else
Path_add(segments, other) ==
    IF other[1] # "Path" THEN [raised |-> TypeError, segments |-> <<>>]
    ELSE IF other[2][1].kind = "Root" THEN [raised |-> AssertionError, segments |-> <<>>]
    ELSE [raised |-> NoExc, segments |-> segments \o other[2]]

\* the program keeps the path an expression made, or sees its exception
Made(t, r, maxpaths) ==
    /\ exc[t] = NoExc
    /\ Len(paths) < maxpaths
    /\ paths' = IF r.raised = NoExc THEN Append(paths, r.segments) ELSE paths
    /\ exc' = [exc EXCEPT ![t] = r.raised]
    /\ UNCHANGED <<nodes, nsobjs, context_stack, tree_stack, frames, classes, xmllist, ret>>

\* XML.Path(tag, xmlns=xmlns, **xmlattrs); XML.Path() for tag None
NewPath(t, tag, xmlns, xmlattrs, maxpaths) ==
    Made(t, Path_init(tag, None, None, xmlns, xmlattrs), maxpaths)

Div(t, i, tag, maxpaths) ==
    i \in 1..Len(paths) /\ Made(t, Path_div(paths[i], tag), maxpaths)

FloorDiv(t, i, tag, maxpaths) ==
    i \in 1..Len(paths) /\ Made(t, Path_floordiv(paths[i], tag), maxpaths)

GetItem(t, i, key, maxpaths) ==
    i \in 1..Len(paths) /\ Made(t, Path_getitem(paths[i], key), maxpaths)

\* paths[i] + paths[j], and paths[i] + 'a' for j = 0
Operand(j) == IF j = 0 THEN <<"str", <<"a">>>> ELSE <<"Path", paths[j]>>

Add(t, i, j, maxpaths) ==
    /\ i \in 1..Len(paths)
    /\ j \in 0..Len(paths)
    /\ Made(t, Path_add(paths[i], Operand(j)), maxpaths)

ParentPath_of_one(t, i, maxpaths) ==
    /\ exc[t] = NoExc
    /\ i \in 1..Len(paths)
    /\ Len(paths) < maxpaths
    /\ paths' = Append(paths, SubSeq(paths[i], 1, Len(paths[i]) - 1))
    /\ ret' = ret
    /\ UNCHANGED <<nodes, nsobjs, context_stack, tree_stack, frames, exc, classes, xmllist>>

\* paths[i].parentpath(): a new path, or None for a path of one segment
ParentPath(t, i, maxpaths) ==
    /\ exc[t] = NoExc
    /\ i \in 1..Len(paths)
    /\ Len(paths) < maxpaths
    /\ LET path == parentpath(paths[i])
       IN  /\ paths' = IF path = None THEN paths ELSE Append(paths, path[1])
           /\ ret' = IF path = None THEN <<"parentpath", i, None>> ELSE ret
    /\ UNCHANGED <<nodes, nsobjs, context_stack, tree_stack, frames, exc, classes, xmllist>>

\* str(index) of a natural number
Digit == <<"0", "1", "2", "3", "4", "5", "6", "7", "8", "9">>

RECURSIVE IntText(_)
IntText(i) == IF i < Len(Digit) THEN <<Digit[i + 1]>>
              ELSE IntText(i \div Len(Digit)) \o <<Digit[(i % Len(Digit)) + 1]>>

\* ','.join("{}='{}'".format(*item) for item in xmlattrs.items())
RECURSIVE ItemsText(_, _)
ItemsText(attrib, keys) ==
    IF keys = {} THEN <<>>
    ELSE LET k == CHOOSE x \in keys : TRUE
         IN  k \o <<"=", "'">> \o attrib[k][2] \o <<"'">>
               \o (IF keys = {k} THEN <<>> ELSE <<",">>) \o ItemsText(attrib, keys \ {k})

\* Segment.__str__ and Element.__str__
Segment_str(seg) ==
    IF seg.xml = None THEN seg.tag
    ELSE seg.tag
           \o (IF seg.xml[1].element.attrib # EmptyDict
               THEN <<"[">> \o ItemsText(seg.xml[1].element.attrib,
                                         DOMAIN seg.xml[1].element.attrib) \o <<"]">>
               ELSE <<>>)
           \o (IF seg.index # None THEN <<"[">> \o IntText(seg.index[1]) \o <<"]">> ELSE <<>>)

\* '/'.join(texts)
RECURSIVE Join(_)
Join(texts) ==
    IF texts = <<>> THEN <<>>
    ELSE IF Len(texts) = 1 THEN texts[1]
    ELSE texts[1] \o <<"/">> \o Join(Tail(texts))

\* Path.__str__
Path_str(segments) == Join([i \in 1..Len(segments) |-> Segment_str(segments[i])])

AllTagged_or_Any(segments) ==
    \A i \in 1..Len(segments) : segments[i].kind \in {"Tagged", "Any"}

\* all(isinstance(seg, Tagged) for seg in self._segments)
AllTagged(segments) == \A i \in 1..Len(segments) : segments[i].kind = "Tagged"

\* segment_to_xpath
segment_to_xpath(segment) ==
    LET prefixed == Contains(segment.tag, ":")
        tag == IF prefixed THEN Split1(segment.tag, ":")[2] ELSE segment.tag
    IN  <<"*", "[", "n", "a", "m", "e", "(", ")", "=", "'">> \o tag \o <<"'">>
          \o (IF prefixed
              THEN <<"'", " ", "a", "n", "d", " ", "n", "a", "m", "e", "s", "p", "a", "c", "e", "-", "u", "r", "i", "(", ")", "=", "'">>
                     \o segment.xmlns[Split1(segment.tag, ":")[1]] \o <<"'">>
              ELSE <<>>)
          \o <<"]">>

Path_to_xpath_first_only(segments) == segment_to_xpath(segments[1])

\* Path.to_xpath, for a path that passes the assertion
Path_to_xpath(segments) == Join([i \in 1..Len(segments) |-> segment_to_xpath(segments[i])])

\* XML.__copy__ of the segment's node: XML[self.tag](attrs=self.element.attrib,
\* xmlns=self.xmlns())
XML_copy(node) ==
    NewNode(XML_tag(<<node>>, 1), Some(node.element.attrib), Some(nsmap(<<node>>, 1)), EmptyDict)

\* segments_to_xml: every segment's copy is constructed inside the with block
\* of the copy before it, the first one inside the caller's open parent p
RECURSIVE segments_to_xml(_, _, _)
segments_to_xml(ns, segments, p) ==
    IF segments = <<>> THEN ns
    ELSE LET copied == Append(ns, XML_copy(Head(segments).xml[1]))
         IN  segments_to_xml(ParentSetter(copied, Len(copied), p), Tail(segments), Len(copied))

\* str(paths[i])
Str(t, i) ==
    /\ exc[t] = NoExc
    /\ i \in 1..Len(paths)
    /\ ret' = <<"str", i, Path_str(paths[i])>>
    /\ UNCHANGED <<nodes, nsobjs, context_stack, tree_stack, frames, exc, classes, xmllist, paths>>

\* paths[i].to_xpath()
ToXPath(t, i) ==
    /\ exc[t] = NoExc
    /\ i \in 1..Len(paths)
    /\ IF AllTagged(paths[i])
       THEN ret' = <<"to_xpath", i, Path_to_xpath(paths[i])>> /\ exc' = exc
       ELSE ret' = ret /\ exc' = [exc EXCEPT ![t] = AssertionError]
    /\ UNCHANGED <<nodes, nsobjs, context_stack, tree_stack, frames, classes, xmllist, paths>>

\* paths[i].to_xml()
ToXml(t, i, maxnodes) ==
    /\ exc[t] = NoExc
    /\ i \in 1..Len(paths)
    /\ Len(nodes) + Len(paths[i]) <= maxnodes
    /\ IF AllTagged(paths[i])
       THEN /\ nodes' = segments_to_xml(nodes, paths[i], CurrentParent(t))
            /\ ret' = <<"to_xml", i, Len(nodes) + 1>>
            /\ exc' = exc
       ELSE /\ nodes' = nodes
            /\ ret' = ret
            /\ exc' = [exc EXCEPT ![t] = AssertionError]
    /\ UNCHANGED <<nsobjs, context_stack, tree_stack, frames, classes, xmllist, paths>>

(***************************************************************************)
(* Arguments of the constructors.                                          *)
(***************************************************************************)
P == <<"p">>
Q == <<"q">>
U == <<"u">>
V == <<"v">>
Dict1(k, v) == [x \in {k} |-> v]
Dict2(k1, v1, k2, v2) == [x \in {k1, k2} |-> IF x = k1 THEN v1 ELSE v2]

Init ==
    /\ nodes = <<>>
    /\ nsobjs = <<>>
    /\ context_stack = <<>>
    /\ tree_stack = [t \in Threads |-> <<>>]
    /\ frames = [t \in Threads |-> <<>>]
    /\ exc = [t \in Threads |-> NoExc]
    /\ classes = <<>>
    /\ xmllist = None
    /\ paths = <<>>
    /\ ret = None

(***************************************************************************)
(* Trees: one thread that builds nodes inside the with blocks of nodes.    *)
(***************************************************************************)
TreeTags == {<<"n">>, <<"p", ":", "n">>}

NextTree ==
    \E t \in {1} :
        \/ \E tag \in TreeTags : Construct(t, tag, None, None, EmptyDict, TreeMaxNodes)
        \/ \E n \in 1..TreeMaxNodes : XML_enter(t, n, TreeMaxDepth)
        \/ XML_exit(t)
        \/ Raise(t)
        \/ Catch(t)

SpecTree == Init /\ [][NextTree]_vars

(***************************************************************************)
(* Namespace contexts: one thread that makes and nests XML.NS blocks.      *)
(***************************************************************************)
CtxArgs == {<<Some(Dict1(P, U)), EmptyDict>>,
            <<Some(Dict2(P, V, Q, V)), EmptyDict>>,
            <<None, Dict1(<<"p", "_", "x">>, V)>>}

NextCtx ==
    \E t \in {1} :
        \/ \E a \in CtxArgs : NewNS(t, a[1], a[2], CtxMaxNS)
        \/ \E h \in 1..CtxMaxNS : NS_enter(t, h, CtxMaxDepth)
        \/ NS_exit(t)
        \/ Raise(t)
        \/ Catch(t)

SpecCtx == Init /\ [][NextCtx]_vars

(***************************************************************************)
(* Resolution: one thread that builds nodes inside node and XML.NS blocks. *)
(* ResMaxObjects bounds the nodes and NS objects it makes; an object is    *)
(* the subject of one with block at a time.                                *)
(***************************************************************************)
ResArgs == {<<<<"p", ":", "n">>, None>>,
            <<<<"q", ":", "n">>, Some(Dict1(<<"p", ":", "a">>, PyStr(<<"x">>)))>>,
            <<<<"n">>, Some(Dict1(<<"p", ":", "a">>, PyStr(<<"x">>)))>>}
ResXmlns == {None, Some(Dict1(P, U))}
ResMappings == {Some(Dict2(P, V, Q, V))}

NextRes ==
    \E t \in {1} :
        \/ \E a \in ResArgs, xmlns \in ResXmlns :
              Construct(t, a[1], a[2], xmlns, EmptyDict, ResMaxObjects - Len(nsobjs))
        \/ \E n \in 1..ResMaxObjects : ~Open(t, n) /\ XML_enter(t, n, ResMaxObjects)
        \/ XML_exit(t)
        \/ \E m \in ResMappings : NewNS(t, m, EmptyDict, ResMaxObjects - Len(nodes))
        \/ \E h \in 1..ResMaxObjects : ~Active(h) /\ NS_enter(t, h, ResMaxObjects)
        \/ NS_exit(t)
        \/ Catch(t)

SpecRes == Init /\ [][NextRes]_vars

(***************************************************************************)
(* Threads: two threads that nest XML.NS blocks and build nodes.           *)
(***************************************************************************)
MtTags == {<<"p", ":", "n">>, <<"q", ":", "n">>}
MtMappings == {Some(Dict1(P, U)), Some(Dict1(Q, V))}

NextMt ==
    \E t \in Threads :
        \/ \E tag \in MtTags : Construct(t, tag, None, None, EmptyDict, MtMaxNodes)
        \/ \E m \in MtMappings : NewNS(t, m, EmptyDict, MtMaxNS)
        \/ \E h \in 1..MtMaxNS : NS_enter(t, h, MtMaxDepth)
        \/ NS_exit(t)
        \/ Catch(t)

SpecMt == Init /\ [][NextMt]_vars

(***************************************************************************)
(* Releases: one thread that also calls __exit__ on handles directly.      *)
(***************************************************************************)
CallMappings == {Some(Dict1(P, U))}

NextCall ==
    \E t \in {1} :
        \/ \E m \in CallMappings : NewNS(t, m, EmptyDict, CallMaxNS)
        \/ \E h \in 1..CallMaxNS : NS_enter(t, h, CallMaxDepth)
        \/ \E h \in 1..CallMaxNS : NS_exit_call(t, h)
        \/ NS_exit(t)
        \/ Raise(t)
        \/ Catch(t)

SpecCall == Init /\ [][NextCall]_vars

(***************************************************************************)
(* Equality: one thread that builds trees inside and outside an XML.NS     *)
(* block; the XML.NS block is an outermost block, and a node is entered    *)
(* by the with statement that constructs it.                               *)
(***************************************************************************)
EqRootArgs == {<<<<"n">>, None, EmptyDict>>,
               <<<<"n">>, Some(Dict1(P, U)), EmptyDict>>,
               <<<<"n">>, Some(Dict1(P, V)), EmptyDict>>}
EqSubArgs == {<<<<"p", ":", "n">>, None, EmptyDict>>,
              <<<<"n">>, None, Dict1(<<"a">>, PyStr(<<"x">>))>>}
EqArgs(t) == IF CurrentParent(t) = 0 THEN EqRootArgs ELSE EqSubArgs
EqMappings == {Some(Dict1(P, U))}
\* one with block for every XML.NS object and one for a node
EqDepth == Cardinality(EqMappings) + 1

NextEq ==
    \E t \in {1} :
        \/ \E a \in EqArgs(t) : Construct(t, a[1], None, a[2], a[3], EqMaxNodes)
        \/ \E n \in {Len(nodes)} : ~Open(t, n) /\ XML_enter(t, n, EqDepth)
        \/ XML_exit(t)
        \/ \E m \in EqMappings : NewNS(t, m, EmptyDict, Cardinality(EqMappings))
        \/ \E h \in 1..Cardinality(EqMappings) : frames[t] = <<>> /\ NS_enter(t, h, EqDepth)
        \/ NS_exit(t)
        \/ Catch(t)

SpecEq == Init /\ [][NextEq]_vars

(***************************************************************************)
(* Selection: one thread that builds a node with children and selects      *)
(* among them.                                                             *)
(***************************************************************************)
ATTR == <<"a", "t", "t", "r">>
SubRootArgs == {<<<<"n">>, EmptyDict>>}
SubChildArgs == {<<<<"a">>, Dict1(ATTR, PyInt(<<"1">>))>>,
                 <<<<"a">>, Dict1(ATTR, PyInt(<<"2">>))>>,
                 <<<<"b">>, Dict1(ATTR, PyInt(<<"2">>))>>,
                 <<<<"b">>, Dict1(ATTR, PyStr(<<"2">>))>>,
                 <<<<"b">>, EmptyDict>>}
SubArgs(t) == IF CurrentParent(t) = 0 THEN SubRootArgs ELSE SubChildArgs
SubTagFilters == {<<>>, <<<<"a">>>>, <<<<"a">>, <<"b">>>>}
SubAttrFilters == {<<>>, <<<<ATTR, PyInt(<<"2">>)>>>>, <<<<ATTR, PyStr(<<"2">>)>>>>}

NextSub ==
    \E t \in {1} :
        \/ \E a \in SubArgs(t) : Construct(t, a[1], None, None, a[2], SubMaxNodes)
        \/ \E n \in {Len(nodes)} : ~Open(t, n) /\ XML_enter(t, n, SubMaxDepth)
        \/ XML_exit(t)
        \/ \E n \in 1..SubMaxNodes, tag_filter \in SubTagFilters, items \in SubAttrFilters :
              sub_call(t, n, tag_filter, items)
        \/ Catch(t)

SpecSub == Init /\ [][NextSub]_vars

(***************************************************************************)
(* Path keys: one thread that makes paths inside and outside an XML.NS     *)
(* block, sets index and attribute predicates and asks for the text.       *)
(***************************************************************************)
X == <<"x">>
Y == <<"y">>
ItemArgs == {<<None, EmptyDict>>,
             <<Some(<<"a">>), EmptyDict>>,
             <<Some(<<"a">>), Dict1(X, PyStr(<<"1">>))>>}
ItemTags == {<<"b">>}
ItemKeys == {<<"int", 2>>,
             <<"dict", Dict1(Y, PyStr(<<"2">>))>>,
             <<"dict", Dict1(X, PyStr(<<"3">>))>>}
ItemMappings == {Some(Dict1(Q, V))}

NextItem ==
    \E t \in {1} :
        \/ \E a \in ItemArgs : NewPath(t, a[1], None, a[2], ItemMaxPaths)
        \/ \E i \in 1..ItemMaxPaths, tag \in ItemTags : Div(t, i, tag, ItemMaxPaths)
        \/ \E i \in 1..ItemMaxPaths, key \in ItemKeys : GetItem(t, i, key, ItemMaxPaths)
        \/ \E i \in 1..ItemMaxPaths : Str(t, i)
        \/ \E m \in ItemMappings : NewNS(t, m, EmptyDict, Cardinality(ItemMappings))
        \/ \E h \in 1..Cardinality(ItemMappings) : frames[t] = <<>> /\ NS_enter(t, h, ItemMaxPaths)
        \/ NS_exit(t)
        \/ Catch(t)

SpecItem == Init /\ [][NextItem]_vars

(***************************************************************************)
(* Path output: one thread that makes paths and asks for their text,       *)
(* query string and tree.                                                  *)
(***************************************************************************)
OutArgs == {None, Some(<<"a">>)}
OutTags == {<<"b">>, <<"*">>}
OutDeepTags == {<<"b">>}

NextOut ==
    \E t \in {1} :
        \/ \E tag \in OutArgs : NewPath(t, tag, None, EmptyDict, OutMaxPaths)
        \/ \E i \in 1..OutMaxPaths, tag \in OutTags : Div(t, i, tag, OutMaxPaths)
        \/ \E i \in 1..OutMaxPaths, tag \in OutDeepTags : FloorDiv(t, i, tag, OutMaxPaths)
        \/ \E i \in 1..OutMaxPaths : Str(t, i)
        \/ \E i \in 1..OutMaxPaths : ToXPath(t, i)
        \/ \E i \in 1..OutMaxPaths : ToXml(t, i, OutMaxPaths)
        \/ Catch(t)

SpecOut == Init /\ [][NextOut]_vars

(***************************************************************************)
(* Path concatenation: one thread that makes paths and adds them.          *)
(***************************************************************************)
AddArgs == {None, Some(<<"a">>)}
AddTags == {<<"b">>}

NextAdd ==
    \E t \in {1} :
        \/ \E tag \in AddArgs : NewPath(t, tag, None, EmptyDict, AddMaxPaths)
        \/ \E i \in 1..AddMaxPaths, tag \in AddTags : Div(t, i, tag, AddMaxPaths)
        \/ \E i \in 1..AddMaxPaths, j \in 0..AddMaxPaths : Add(t, i, j, AddMaxPaths)
        \/ Catch(t)

SpecAdd == Init /\ [][NextAdd]_vars

(***************************************************************************)
(* Segments: one thread that makes paths by every operation that returns   *)
(* a path.                                                                 *)
(***************************************************************************)
SegArgs == {None, Some(<<"a">>)}
SegTags == {<<"b">>}
SegKeys == {<<"int", 1>>}

NextSeg ==
    \E t \in {1} :
        \/ \E tag \in SegArgs : NewPath(t, tag, None, EmptyDict, SegMaxPaths)
        \/ \E i \in 1..SegMaxPaths, tag \in SegTags : Div(t, i, tag, SegMaxPaths)
        \/ \E i \in 1..SegMaxPaths, tag \in SegTags : FloorDiv(t, i, tag, SegMaxPaths)
        \/ \E i \in 1..SegMaxPaths, key \in SegKeys : GetItem(t, i, key, SegMaxPaths)
        \/ \E i \in 1..SegMaxPaths, j \in 0..SegMaxPaths : Add(t, i, j, SegMaxPaths)
        \/ \E i \in 1..SegMaxPaths : ParentPath(t, i, SegMaxPaths)
        \/ Catch(t)

SpecSeg == Init /\ [][NextSeg]_vars

(***************************************************************************)
(* Lists: one thread that makes nodes and a list of them, and gets and     *)
(* sets an attribute of the list.                                          *)
(***************************************************************************)
ListArgs == {<<<<"n">>, Dict1(ATTR, PyStr(<<"v">>))>>,
             <<<<"n">>, Dict1(ATTR, PyStr(<<"w">>))>>,
             <<<<"m">>, EmptyDict>>}
ListKeys == {ATTR}
ListValues == {PyStr(<<"w">>)}

NextList ==
    \E t \in {1} :
        \/ \E a \in ListArgs : Construct(t, a[1], None, None, a[2], ListMaxNodes)
        \/ \E first \in 1..ListMaxNodes, last \in 0..ListMaxNodes : NewList(t, first, last)
        \/ \E key \in ListKeys : ListGet(t, key)
        \/ \E key \in ListKeys, value \in ListValues : ListSet(t, key, value)
        \/ Catch(t)

SpecList == Init /\ [][NextList]_vars

(***************************************************************************)
(* Binding: one thread that binds tags and constructs nodes of the bound   *)
(* classes.                                                                *)
(***************************************************************************)
BindTags == {<<"a">>, <<"b">>, <<"c">>}

NextBind ==
    \E t \in {1} :
        \/ \E cls \in 0..BindMaxClasses, tag \in BindTags : Bind(t, cls, tag, BindMaxClasses)
        \/ \E cls \in 1..Len(classes) :
              Construct(t, classes[cls].tag, None, None, EmptyDict, BindMaxNodes)
        \/ Catch(t)

SpecBind == Init /\ [][NextBind]_vars

(***************************************************************************)
(* Properties of trees (SpecTree).                                         *)
(***************************************************************************)
Range(seq) == {seq[i] : i \in 1..Len(seq)}

Occurrences(seq, x) == Cardinality({i \in 1..Len(seq) : seq[i] = x})

\* the node of the innermost with block of a node thread t is in, 0 if none
InnermostOpen(t) ==
    LET open == {i \in 1..Len(frames[t]) : frames[t][i].kind = "XML"}
    IN  IF open = {} THEN 0
        ELSE frames[t][CHOOSE i \in open : \A j \in open : j <= i].id

\* C1: a node that a tag-bound constructor has built is the last child of the
\* node of the innermost with block still open, has that node as its parent and
\* is a child of no other node; outside every with block it has no parent.
C1_AttachedToInnermostOpen ==
    [][Len(nodes') = Len(nodes) + 1 =>
        LET n == Len(nodes')
            p == InnermostOpen(1)
        IN  /\ nodes'[n].parent = p
            /\ p # 0 => nodes'[p].sub = Append(nodes[p].sub, n)
            /\ \A m \in 1..Len(nodes') : m # p => n \notin Range(nodes'[m].sub)]_vars

\* node 3 was built inside node 2 inside node 1, node 4 after the block of
\* node 2 was left, and node 4 is the last child of node 1
C1_Witness ==
    /\ Len(nodes) = 4
    /\ nodes[1].sub = <<2, 4>>
    /\ nodes[2].sub = <<3>>
    /\ nodes[4].parent = 1
    /\ Len(frames[1]) = 1
    /\ frames[1][1].id = 1

\* C6: c has parent p exactly if c occurs, once, in p.sub; no node is in the
\* child sequence of two nodes; the element of p has the elements of p.sub as
\* its children, in the same order.
C6_ParentAndSubAgree ==
    \A c \in 1..Len(nodes) :
        /\ \A p \in 1..Len(nodes) :
              /\ nodes[c].parent = p <=> c \in Range(nodes[p].sub)
              /\ Occurrences(nodes[p].sub, c) <= 1
              /\ nodes[p].element.children = nodes[p].sub
              /\ nodes[c].element.parent = p <=> c \in Range(nodes[p].element.children)
        /\ Cardinality({p \in 1..Len(nodes) : c \in Range(nodes[p].sub)}) <= 1
        /\ nodes[c].parent = 0 <=> \A p \in 1..Len(nodes) : c \notin Range(nodes[p].sub)

\* a node with two children and a grandchild
C6_Witness ==
    /\ Len(nodes) = 4
    /\ nodes[1].sub = <<2, 4>>
    /\ nodes[1].element.children = <<2, 4>>
    /\ nodes[3].parent = 2

(***************************************************************************)
(* Properties of namespace contexts (SpecCtx).                             *)
(***************************************************************************)

\* C2: when a with block of an XML.NS object is left, normally or by an
\* exception, the context stack is what it was just before the block was
\* entered, and the exception of the block, if any, leaves the block unchanged.
C2_ExitRestoresStack ==
    [][\A t \in {1} :
        (/\ frames[t] # <<>>
         /\ frames'[t] = Pop(frames[t])
         /\ Top(frames[t]).kind = "NS")
        => /\ context_stack' = Top(frames[t]).saved
           /\ exc'[t] = exc[t]]_vars

\* an exception raised inside XML.NS blocks has left all of them
C2_Witness ==
    /\ exc[1] = BodyError
    /\ frames[1] = <<>>
    /\ context_stack = <<>>
    /\ Len(nsobjs) = 2

\* the mapping on top of the stack just before the innermost block was entered
TopBefore(frame) == IF frame.saved = <<>> THEN EmptyDict ELSE nsobjs[Top(frame.saved)].map

\* C3 as stated: the mapping of the innermost entered XML.NS object is the
\* mapping that was on top of the stack just before it was entered, overlaid
\* with its own entries.
C3_TopIsTopBeforeEntryOverlaid ==
    \A t \in {1} :
        (frames[t] # <<>> /\ Top(frames[t]).kind = "NS")
        => LET ns == nsobjs[Top(frames[t]).id]
           IN  ns.map = Update(TopBefore(Top(frames[t])), ns.own)

\* C3 as amended: it is the mapping that was on top of the stack when the
\* XML.NS object was made, overlaid with its own entries; own entries win and
\* the other prefixes of that mapping stay visible.
C3_TopIsTopAtConstructionOverlaid ==
    \A t \in {1} :
        (frames[t] # <<>> /\ Top(frames[t]).kind = "NS")
        => LET ns == nsobjs[Top(frames[t]).id]
               before == OrEmpty(ns.ctx)
           IN  /\ Top(context_stack) = Top(frames[t]).id
               /\ DOMAIN ns.map = DOMAIN before \cup DOMAIN ns.own
               /\ \A k \in DOMAIN ns.own : ns.map[k] = ns.own[k]
               /\ \A k \in DOMAIN before \ DOMAIN ns.own : ns.map[k] = before[k]

\* an entered XML.NS object made inside another block, one prefix overridden
\* and one inherited
C3_Witness ==
    /\ frames[1] # <<>>
    /\ Top(frames[1]).kind = "NS"
    /\ nsobjs[Top(frames[1]).id].own = Dict1(P, U)
    /\ nsobjs[Top(frames[1]).id].ctx = Some(Dict2(P, V, Q, V))
    /\ nsobjs[Top(frames[1]).id].map = Dict2(P, U, Q, V)

(***************************************************************************)
(* Properties of threads (SpecMt).                                         *)
(***************************************************************************)

\* the prefixes of the XML.NS objects thread t has entered itself
OwnPrefixes(t) ==
    UNION {DOMAIN nsobjs[frames[t][i].id].own :
              i \in {j \in 1..Len(frames[t]) : frames[t][j].kind = "NS"}}

\* C4: a node built in one thread resolves no prefix that only a mapping
\* activated by the other thread declares, and leaving the innermost XML.NS
\* block of a thread never fails because of the other thread's blocks.
C4_ThreadsAreIsolated ==
    [][\A t \in Threads :
        /\ \A tag \in MtTags :
              (Construct(t, tag, None, None, EmptyDict, MtMaxNodes) /\ exc'[t] = NoExc)
              => TagPrefix(tag)[1] \in OwnPrefixes(t)
        /\ NS_exit(t) => exc'[t] = exc[t]]_vars

(***************************************************************************)
(* Properties of releases (SpecCall).                                      *)
(***************************************************************************)

\* thread t releases h, by leaving its with block or by calling __exit__
Releases(t, h) ==
    \/ NS_exit(t) /\ Top(frames[t]).id = h
    \/ NS_exit_call(t, h)

TopLayer == IF context_stack # <<>> THEN nsobjs[Top(context_stack)].map ELSE EmptyDict

ParentLayer(t) == IF InnermostOpen(t) # 0 THEN nsmap(nodes, InnermostOpen(t)) ELSE EmptyDict

\* the names of the form prefix:name among the tag and the attribute keys
PrefixedNames(tag, attrs) == {x \in {tag} \cup DOMAIN OrEmpty(attrs) : Contains(x, ":")}

PrefixOf(x) == Split1(x, ":")[1]

LocalOf(x) == Split1(x, ":")[2]

\* C7: a constructor call fails with NSLookupError exactly if the tag or an
\* attribute key has a prefix that neither the context stack top, nor the
\* xmlns argument, nor the open parent declares; otherwise the tag and the
\* attribute keys are stored as {uri}name, uri being declared for the prefix.
C7_FailsIffPrefixUndeclared ==
    [][\A a \in ResArgs, xmlns \in ResXmlns :
        Construct(1, a[1], a[2], xmlns, EmptyDict, ResMaxObjects - Len(nsobjs))
        => LET layers == {TopLayer, ParentLayer(1), OrEmpty(xmlns)}
               declared == UNION {DOMAIN l : l \in layers}
               uris(pf) == {l[pf] : l \in {m \in layers : pf \in DOMAIN m}}
               n == Len(nodes')
           IN  /\ exc'[1] = NSLookupError
                    <=> \E x \in PrefixedNames(a[1], a[2]) : PrefixOf(x) \notin declared
               /\ exc'[1] # NSLookupError
                    => /\ exc'[1] = NoExc
                       /\ n = Len(nodes) + 1
                       /\ IF Contains(a[1], ":")
                          THEN \E u \in uris(PrefixOf(a[1])) :
                                  nodes'[n].element.tag = <<"{">> \o u \o <<"}">> \o LocalOf(a[1])
                          ELSE nodes'[n].element.tag = a[1]
                       /\ \A k \in DOMAIN OrEmpty(a[2]) :
                             IF Contains(k, ":")
                             THEN \E u \in uris(PrefixOf(k)) :
                                     LET key == <<"{">> \o u \o <<"}">> \o LocalOf(k)
                                     IN  /\ key \in DOMAIN nodes'[n].element.attrib
                                         /\ nodes'[n].element.attrib[key] = a[2][1][k]
                             ELSE /\ k \in DOMAIN nodes'[n].element.attrib
                                  /\ nodes'[n].element.attrib[k] = a[2][1][k]]_vars

\* a node whose prefix only its parent declares has been built, and a later
\* constructor call has failed
C7_Witness ==
    /\ exc[1] = NSLookupError
    /\ Len(nodes) = 2
    /\ nodes[2].parent = 1
    /\ nodes[2].ctx = None
    /\ nodes[2].xmlns_arg = None
    /\ nodes[2].tag = <<"p", ":", "n">>
    /\ nodes[2].element.tag = <<"{", "u", "}", "n">>

\* the tag of the new node resolves through mapping eff
ResolvesThrough(tag, eff) ==
    Contains(tag, ":")
    => nodes'[Len(nodes')].element.tag = <<"{">> \o eff[PrefixOf(tag)] \o <<"}">> \o LocalOf(tag)

\* C8 as stated: the prefixes of a node built inside an open parent resolve
\* through the context stack top, overlaid with the namespaces of the parent,
\* overlaid with the xmlns argument.
C8_ParentOverridesContext ==
    [][\A a \in ResArgs, xmlns \in ResXmlns :
        (/\ Construct(1, a[1], a[2], xmlns, EmptyDict, ResMaxObjects - Len(nsobjs))
         /\ exc'[1] = NoExc)
        => ResolvesThrough(a[1], Update(Update(TopLayer, ParentLayer(1)), OrEmpty(xmlns)))]_vars

\* C8 as amended: they resolve through the namespaces of the parent, overlaid
\* with the context stack top, overlaid with the xmlns argument.
C8_ContextOverridesParent ==
    [][\A a \in ResArgs, xmlns \in ResXmlns :
        (/\ Construct(1, a[1], a[2], xmlns, EmptyDict, ResMaxObjects - Len(nsobjs))
         /\ exc'[1] = NoExc)
        => ResolvesThrough(a[1], Update(Update(ParentLayer(1), TopLayer), OrEmpty(xmlns)))]_vars

\* the parent declares p as u, the context stack top declares p as v, and the
\* child, built without xmlns, has its p resolved to v
C8_Witness ==
    /\ Len(nodes) >= 2
    /\ nodes[2].parent = 1
    /\ P \in DOMAIN nodes[1].element.nsdef
    /\ nodes[1].element.nsdef[P] = U
    /\ nodes[2].ctx # None
    /\ nodes[2].ctx[1][P] = V
    /\ nodes[2].xmlns_arg = None
    /\ nodes[2].tag = <<"p", ":", "n">>
    /\ nodes[2].element.tag = <<"{", "v", "}", "n">>

\* C9: the mapping a node is built with is the context stack top overlaid with
\* the xmlns argument: xmlns wins, the other prefixes of the top stay; on an
\* empty stack it is xmlns itself.
C9_XmlnsOverridesContext ==
    \A n \in 1..Len(nodes) :
        LET node == nodes[n]
            built == OrEmpty(node.nsarg)
            arg == OrEmpty(node.xmlns_arg)
        IN  /\ node.ctx = None => node.nsarg = node.xmlns_arg
            /\ node.ctx # None =>
                  /\ DOMAIN built = DOMAIN node.ctx[1] \cup DOMAIN arg
                  /\ \A k \in DOMAIN arg : built[k] = arg[k]
                  /\ \A k \in DOMAIN node.ctx[1] \ DOMAIN arg : built[k] = node.ctx[1][k]
            /\ node.parent = 0 => nsmap(nodes, n) = built

\* a node built with xmlns inside an XML.NS block that declares the same
\* prefix with another URI, and a second prefix
C9_Witness ==
    \E n \in 1..Len(nodes) :
        /\ nodes[n].ctx = Some(Dict2(P, V, Q, V))
        /\ nodes[n].xmlns_arg = Some(Dict1(P, U))
        /\ nodes[n].nsarg = Some(Dict2(P, U, Q, V))
        /\ nodes[n].tag = <<"p", ":", "n">>
        /\ nodes[n].element.tag = <<"{", "u", "}", "n">>

(***************************************************************************)
(* Properties of equality (SpecEq).                                        *)
(***************************************************************************)
\* the data of a tree: expanded tag, attribute map, namespace map and the
\* data of its children in order
RECURSIVE TreeData(_, _)
TreeData(ns, n) ==
    [tag |-> ns[n].element.tag,
     attrib |-> ns[n].element.attrib,
     xmlns |-> nsmap(ns, n),
     sub |-> [i \in 1..Len(ns[n].sub) |-> TreeData(ns, ns[n].sub[i])]]

Roots == {n \in 1..Len(nodes) : nodes[n].parent = 0}

RECURSIVE Descendants(_)
Descendants(n) ==
    {n} \cup UNION {Descendants(nodes[n].sub[i]) : i \in 1..Len(nodes[n].sub)}

\* the trees of a and b were built by the same constructor calls, namespace
\* declarations aside
RECURSIVE SameCalls(_, _)
SameCalls(a, b) ==
    /\ nodes[a].tag = nodes[b].tag
    /\ nodes[a].attrs = nodes[b].attrs
    /\ Len(nodes[a].sub) = Len(nodes[b].sub)
    /\ \A i \in 1..Len(nodes[a].sub) : SameCalls(nodes[a].sub[i], nodes[b].sub[i])

\* the root a was built inside an XML.NS block with mapping m, its descendants
\* inside that block or outside XML.NS blocks, all without xmlns arguments
BuiltInContext(a, m) ==
    /\ nodes[a].ctx = Some(m)
    /\ \A n \in Descendants(a) :
          nodes[n].ctx \in {None, Some(m)} /\ nodes[n].xmlns_arg = None

\* the tree of root a was built outside XML.NS blocks, with m as the xmlns
\* argument of the root and no other xmlns argument
BuiltWithXmlns(a, m) ==
    /\ nodes[a].xmlns_arg = Some(m)
    /\ \A n \in Descendants(a) :
          nodes[n].ctx = None /\ (n # a => nodes[n].xmlns_arg = None)

\* the mappings differ in the namespace of exactly one prefix
DifferInOneUri(m1, m2) ==
    /\ DOMAIN m1 = DOMAIN m2
    /\ Cardinality({k \in DOMAIN m1 : m1[k] # m2[k]}) = 1

EqDeclarations == {m[1] : m \in EqMappings} \cup {a[2][1] : a \in {r \in EqRootArgs : r[2] # None}}

\* C10: two nodes compare equal if and only if their expanded tags, their
\* attribute maps, their namespace maps and, in order and recursively, their
\* children are equal; hence a tree built in an XML.NS block equals the tree
\* built by the same calls with the mapping as xmlns argument of the root,
\* and trees built by the same calls with xmlns arguments that differ in the
\* namespace of one prefix are unequal.
C10_EqualIffSameData ==
    /\ \A a, b \in 1..Len(nodes) :
          XMLEq(nodes, a, b) <=> TreeData(nodes, a) = TreeData(nodes, b)
    /\ \A a, b \in Roots : \A m1, m2 \in EqDeclarations :
          SameCalls(a, b) =>
             /\ BuiltInContext(a, m1) /\ BuiltWithXmlns(b, m1)
                   => XMLEq(nodes, a, b) /\ XMLEq(nodes, b, a)
             /\ BuiltWithXmlns(a, m1) /\ BuiltWithXmlns(b, m2) /\ DifferInOneUri(m1, m2)
                   => ~XMLEq(nodes, a, b)

\* two trees with a prefixed child each, one built in an XML.NS block and one
\* with the xmlns argument, are equal
C10_Witness ==
    \E a, b \in Roots : \E m \in EqDeclarations :
        /\ SameCalls(a, b)
        /\ BuiltInContext(a, m) /\ BuiltWithXmlns(b, m)
        /\ \E i \in 1..Len(nodes[a].sub) : nodes[nodes[a].sub[i]].prefix = None
                                            /\ IsPrefixed(nodes[nodes[a].sub[i]].tag)
        /\ XMLEq(nodes, a, b)

(***************************************************************************)
(* Properties of selection (SpecSub).                                      *)
(***************************************************************************)
\* child c was constructed with the value for every attribute of the filter
ConstructedWith(c, items) ==
    \A i \in 1..Len(items) :
        /\ items[i][1] \in DOMAIN nodes[c].kwattrs
        /\ nodes[c].kwattrs[items[i][1]] = items[i][2]

\* the children of n the filters describe, in document order
Selected(n, tag_filter, items) ==
    LET Test(c) == TagMatches(nodes, c, tag_filter) /\ ConstructedWith(c, items)
    IN  SelectSeq(nodes[n].sub, Test)

HasAttrs(c, items) ==
    \A i \in 1..Len(items) : items[i][1] \in DOMAIN nodes[c].element.attrib

\* C11: node.sub(*tagFilter, **attrFilter) returns a new List of exactly the
\* children whose tag is in tagFilter (all if it is empty) and whose attributes
\* were constructed with the values of attrFilter, in document order, and
\* leaves the children as they are.
C11_SubSelectsConstructedValues ==
    [][\A n \in 1..Len(nodes), tag_filter \in SubTagFilters, items \in SubAttrFilters :
          sub_call(1, n, tag_filter, items) /\ exc'[1] = NoExc
             => /\ xmllist' = Some(Selected(n, tag_filter, items))
                /\ nodes' = nodes]_vars

\* C12: node.sub(..., attr=value) excludes a child that passes the tag filter
\* and has no attribute attr, and raises nothing.
C12_MissingAttributeIsExcluded ==
    [][\A n \in 1..Len(nodes), tag_filter \in SubTagFilters, items \in SubAttrFilters :
          sub_call(1, n, tag_filter, items)
             => /\ exc'[1] = NoExc
                /\ \A i \in 1..Len(xmllist'[1]) : HasAttrs(xmllist'[1][i], items)]_vars

(***************************************************************************)
(* Properties of path keys (SpecItem).                                     *)
(***************************************************************************)
\* the attribute predicates of a segment
Predicates(seg) == IF seg.xml = None THEN EmptyDict ELSE seg.xml[1].element.attrib

\* the segments before the last one
Earlier(segments) == SubSeq(segments, 1, Len(segments) - 1)

ItemMappingKeys == {key \in ItemKeys : key[1] = "dict"}
ItemIntKeys == {key \in ItemKeys : key[1] = "int"}

\* C13: path[mapping] is a new path whose last segment has the predicates of
\* path's last segment overlaid with mapping, and the same index, tag and
\* earlier segments.
C13_MappingMergesPredicates ==
    [][\A i \in 1..Len(paths), key \in ItemMappingKeys :
          GetItem(1, i, key, ItemMaxPaths) /\ exc'[1] = NoExc
             => LET new == paths'[Len(paths')]
                IN  /\ Predicates(Top(new)) = Update(Predicates(Top(paths[i])), key[2])
                    /\ Top(new).index = Top(paths[i]).index
                    /\ Top(new).tag = Top(paths[i]).tag
                    /\ Earlier(new) = Earlier(paths[i])]_vars

\* C17: path[i] is a new path with the segments of path, except that the
\* index of its last segment is i; path is unchanged and the text of the new
\* path is the text of path with [i] after the last segment.
C17_IndexKeepsTheRest ==
    [][\A i \in 1..Len(paths), key \in ItemIntKeys :
          GetItem(1, i, key, ItemMaxPaths) /\ exc'[1] = NoExc
             => LET new == paths'[Len(paths')]
                IN  /\ Len(new) = Len(paths[i])
                    /\ Earlier(new) = Earlier(paths[i])
                    /\ Top(new).kind = Top(paths[i]).kind
                    /\ Top(new).tag = Top(paths[i]).tag
                    /\ Predicates(Top(new)) = Predicates(Top(paths[i]))
                    /\ Top(new).xmlns = Top(paths[i]).xmlns
                    /\ Top(new).index = Some(key[2])
                    /\ paths'[i] = paths[i]
                    /\ Top(paths[i]).index = None
                          => Path_str(new) = Path_str(paths[i]) \o <<"[">> \o IntText(key[2]) \o <<"]">>]_vars

(***************************************************************************)
(* Properties of path output (SpecOut).                                    *)
(***************************************************************************)
\* the path has a Root, DeepDescendant or Wildcard segment
NonConcrete(segments) ==
    \E k \in 1..Len(segments) : segments[k].kind \in {"Root", "Deep", "Any"}

\* C14: to_xml and to_xpath fail with the structural error, and build and
\* return nothing, for every path with a Root, DeepDescendant or Wildcard
\* segment at any position: they succeed only when every segment is tagged.
C14_OutputNeedsTaggedSegments ==
    [][\A i \in 1..Len(paths) :
          ToXPath(1, i) \/ ToXml(1, i, OutMaxPaths)
             => IF NonConcrete(paths[i])
                THEN exc'[1] = AssertionError /\ nodes' = nodes /\ ret' = ret
                ELSE exc'[1] = NoExc]_vars

\* the call failed and no path the program has is all tagged; one has a
\* DeepDescendant or Wildcard segment behind its first segment
C14_Witness ==
    /\ exc[1] = AssertionError
    /\ nodes = <<>>
    /\ \A i \in 1..Len(paths) : NonConcrete(paths[i])
    /\ \E i \in 1..Len(paths) : \E k \in 2..Len(paths[i]) : paths[i][k].kind \in {"Deep", "Any"}

\* the segments are tagged, without prefix, predicates and index
PlainTags(segments) ==
    \A k \in 1..Len(segments) :
        /\ segments[k].kind = "Tagged"
        /\ ~Contains(segments[k].tag, ":")
        /\ Predicates(segments[k]) = EmptyDict
        /\ segments[k].index = None

\* Path()/t1/.../tn
RootThenPlainTags(segments) ==
    Len(segments) > 1 /\ segments[1].kind = "Root" /\ PlainTags(Tail(segments))

\* t1/.../tn and *[name()='t1']/.../*[name()='tn']
RECURSIVE TagsText(_)
TagsText(segments) ==
    IF segments = <<>> THEN <<>>
    ELSE segments[1].tag \o (IF Len(segments) > 1 THEN <<"/">> ELSE <<>>) \o TagsText(Tail(segments))

RECURSIVE TagsQuery(_)
TagsQuery(segments) ==
    IF segments = <<>> THEN <<>>
    ELSE <<"*", "[", "n", "a", "m", "e", "(", ")", "=", "'">> \o segments[1].tag \o <<"'", "]">>
           \o (IF Len(segments) > 1 THEN <<"/">> ELSE <<>>) \o TagsQuery(Tail(segments))

\* the nodes from first on are a chain with the tags of the segments: every
\* node has one child, the next node, and the last one has none
Chain(ns, first, segments) ==
    /\ Len(ns) = first + Len(segments) - 1
    /\ \A k \in 1..Len(segments) :
          /\ ns[first + k - 1].element.tag = segments[k].tag
          /\ ns[first + k - 1].sub = IF k < Len(segments) THEN <<first + k>> ELSE <<>>
          /\ ns[first + k - 1].element.children = ns[first + k - 1].sub
          /\ ns[first + k - 1].parent = IF k = 1 THEN 0 ELSE first + k - 2

\* the three outputs of a path of plain tags t1/.../tn
PlainOutputs(i, segments) ==
    /\ Str(1, i) => ret'[3] = TagsText(segments)
    /\ ToXPath(1, i) => exc'[1] = NoExc /\ ret'[3] = TagsQuery(segments)
    /\ ToXml(1, i, OutMaxPaths)
          => exc'[1] = NoExc /\ ret'[3] = Len(nodes) + 1
                /\ Chain(nodes', Len(nodes) + 1, segments)
                /\ SubSeq(nodes', 1, Len(nodes)) = nodes

\* C15 as stated: Path()/t1/.../tn has the text /t1/.../tn, the query string
\* *[name()='t1']/.../*[name()='tn'] and the tree t1 > ... > tn.
C15_RootedPathHasOutputs ==
    [][\A i \in 1..Len(paths) :
          RootThenPlainTags(paths[i])
             => /\ Str(1, i) => ret'[3] = <<"/">> \o TagsText(Tail(paths[i]))
                /\ PlainOutputs(i, Tail(paths[i]))]_vars

\* C15: Path()/t1/.../tn has the text /t1/.../tn, and to_xpath and to_xml
\* fail for it with the structural error and build nothing; the path
\* Path(t1)/.../tn, without Root, has the text t1/.../tn, the query string
\* *[name()='t1']/.../*[name()='tn'] and the tree t1 > ... > tn, a chain in
\* which every node has one child except the last, which has none.
C15_UnrootedPathHasOutputs ==
    [][\A i \in 1..Len(paths) :
          /\ RootThenPlainTags(paths[i])
                => /\ Str(1, i) => ret'[3] = <<"/">> \o TagsText(Tail(paths[i]))
                   /\ ToXPath(1, i) \/ ToXml(1, i, OutMaxPaths)
                         => exc'[1] = AssertionError /\ nodes' = nodes /\ ret' = ret
          /\ PlainTags(paths[i]) => PlainOutputs(i, paths[i])]_vars

\* the tree and the query string of Path(t1)/t2 have been made
C15_Witness ==
    /\ exc[1] = NoExc
    /\ \E i \in 1..Len(paths) :
          /\ PlainTags(paths[i]) /\ Len(paths[i]) = 2
          /\ Len(nodes) >= 2 /\ Chain(SubSeq(nodes, 1, 2), 1, paths[i])
          /\ ret = <<"to_xpath", i, TagsQuery(paths[i])>>

(***************************************************************************)
(* Properties of path concatenation (SpecAdd).                             *)
(***************************************************************************)
\* C16: path + other fails with the type error when other is not a path and
\* with the structural error when the first segment of other is Root;
\* otherwise it is a new path of the segments of path followed by those of
\* other, and both operands are unchanged.
C16_AddConcatenates ==
    [][\A i \in 1..Len(paths), j \in 0..Len(paths) :
          Add(1, i, j, AddMaxPaths)
             => IF j = 0 THEN exc'[1] = TypeError /\ paths' = paths
                ELSE IF paths[j][1].kind = "Root"
                THEN exc'[1] = AssertionError /\ paths' = paths
                ELSE /\ exc'[1] = NoExc
                     /\ Len(paths') = Len(paths) + 1
                     /\ SubSeq(paths', 1, Len(paths)) = paths
                     /\ Top(paths') = paths[i] \o paths[j]
                     /\ Len(Top(paths')) = Len(paths[i]) + Len(paths[j])]_vars

\* Path() + Path('a')/'b' has been made, and not as path / tag: no earlier
\* path of two segments starts with Root
C16_Witness ==
    \E i, j, k \in 1..Len(paths) :
        /\ i < k /\ j < k
        /\ paths[i][1].kind = "Root" /\ Len(paths[i]) = 1
        /\ paths[j][1].kind = "Tagged" /\ Len(paths[j]) = 2
        /\ paths[k] = paths[i] \o paths[j]
        /\ \A m \in 1..(k - 1) : ~(Len(paths[m]) = 2 /\ paths[m][1].kind = "Root")

(***************************************************************************)
(* Properties of lists (SpecList).                                         *)
(***************************************************************************)
Lacking(ns, list, key) == {i \in 1..Len(list) : key \notin DOMAIN ns[list[i]].element.attrib}

\* C18: list[attrName] returns a tuple with the value of the attribute of
\* every member, in member order, and fails with KeyError instead when a
\* member lacks the attribute; after list[attrName] = value it returns a
\* tuple of len(list) copies of value.
C18_ListGetsAndSetsAll ==
    [][/\ \A key \in ListKeys :
             ListGet(1, key)
                => IF Lacking(nodes, xmllist[1], key) # {}
                   THEN exc'[1] = KeyError /\ ret' = ret
                   ELSE /\ exc'[1] = NoExc
                        /\ ret'[3] = [i \in 1..Len(xmllist[1]) |->
                                         nodes[xmllist[1][i]].element.attrib[key]]
       /\ \A key \in ListKeys, value \in ListValues :
             ListSet(1, key, value)
                => List_getitem(nodes', xmllist'[1], key)
                      = [raised |-> FALSE, items |-> [i \in 1..Len(xmllist[1]) |-> value]]]_vars

\* the list of a member that lacked the attribute and a member that had
\* another value returns two copies of the value that was set
C18_Witness ==
    /\ xmllist # None /\ Len(xmllist[1]) >= 2
    /\ \E i, j \in 1..Len(xmllist[1]) :
          /\ ATTR \notin DOMAIN nodes[xmllist[1][i]].kwattrs
          /\ nodes[xmllist[1][j]].kwattrs = Dict1(ATTR, PyStr(<<"v">>))
    /\ ret # None
    /\ ret[3] = [i \in 1..Len(xmllist[1]) |-> PyStr(<<"w">>)]

(***************************************************************************)
(* Properties of binding (SpecBind).                                       *)
(***************************************************************************)
\* C19: XML[t] returns the constructor every earlier XML[t] returned, distinct
\* tags have distinct constructors, and binding a constructor that has a tag
\* fails with the TypeError and creates nothing.
C19_BindingIsCached ==
    [][\A cls \in 0..Len(classes), tag \in BindTags :
          Bind(1, cls, tag, BindMaxClasses)
             => IF cls = 0
                THEN /\ exc'[1] = NoExc
                     /\ SubSeq(classes', 1, Len(classes)) = classes
                     /\ ret'[2] \in 1..Len(classes')
                     /\ \A c \in 1..Len(classes') :
                           classes'[c].base = 0 => (classes'[c].tag = tag <=> c = ret'[2])
                ELSE exc'[1] = TypeError /\ classes' = classes /\ ret' = ret]_vars

\* XML[t] has been asked for again after another tag was bound and a node
\* was constructed, it has returned the first class, and binding a bound
\* class has failed
C19_Witness ==
    /\ Len(classes) >= 2
    /\ ret = <<"class", 1>>
    /\ exc[1] = TypeError
    /\ nodes # <<>>

(***************************************************************************)
(* Properties of a failed construction (SpecRes).                          *)
(***************************************************************************)
\* C20: a construction inside an open parent that fails with the NSLookupError
\* leaves the parent's sub list and its element's children, every other node,
\* the open-parent stack and the XML.NS context stack as they were.
C20_FailedConstructLeavesParent ==
    [][(exc[1] = NoExc /\ exc'[1] = NSLookupError /\ tree_stack[1] # <<>>)
          => /\ nodes' = nodes
             /\ tree_stack' = tree_stack
             /\ frames' = frames
             /\ context_stack' = context_stack]_vars

\* a construction has failed inside an open parent that has a child already
C20_Witness ==
    /\ exc[1] = NSLookupError
    /\ tree_stack[1] # <<>>
    /\ nodes[Top(tree_stack[1])].sub # <<>>
    /\ \A c \in 1..Len(nodes) : nodes[c].parent # 0 => nodes[c].parent = Top(tree_stack[1])

(***************************************************************************)
(* Properties of the segments of a path (SpecSeg).                         *)
(***************************************************************************)
\* C21: every path made by Path(), Path(tag), /, //, [key], + and parentpath()
\* has at least one segment, and a Root segment only as its first segment.
C21_RootOnlyFirst ==
    \A i \in 1..Len(paths) :
        /\ Len(paths[i]) >= 1
        /\ \A k \in 2..Len(paths[i]) : paths[i][k].kind # "Root"

\* a path that starts with Root has been extended by //, its parentpath() has
\* been taken, and parentpath() of a path of one segment has returned None
C21_Witness ==
    /\ \E i, j \in 1..Len(paths) :
          /\ i < j
          /\ Len(paths[i]) >= 3
          /\ paths[i][1].kind = "Root"
          /\ paths[j] = SubSeq(paths[i], 1, Len(paths[i]) - 1)
    /\ ret # None
    /\ ret[1] = "parentpath"
    /\ exc[1] = NoExc

====
